---- MODULE Spec2Model ----
(***************************************************************************)
(* Model of Sounder (src/Sounder.js): the sound registry, the preparation *)
(* pipeline and the playback facade, run on a promise/microtask engine.   *)
(*                                                                         *)
(* Every promise the code creates is a cell of `promises`; every          *)
(* continuation (.then/.catch callback) that became runnable is a job of  *)
(* the FIFO `queue`.  One action runs one synchronous piece of code: a    *)
(* facade call made by the client, or the job at the head of the queue.   *)
(***************************************************************************)
EXTENDS Naturals, Sequences, FiniteSets, TLC

\* ------------------------------------------------------------------ bounds
MaxCalls == 2   \* facade calls the client makes in one behaviour
MaxPos == 1     \* playback positions 0..MaxPos of a media handle
MaxExts == 3    \* length of the lists the encoding selection is applied to

\* ------------------------------------------------------- static catalogues
OGG == "ogg"
MP4 == "mp4"
MP3 == "mp3"
WAV == "wav"
AAC == "aac"

attrs == <<"autoplay", "loop", "muted", "preload", "volume">>

exts == [all      |-> <<WAV, OGG, AAC, MP3, MP4>>,
         firefox  |-> <<OGG, MP3, WAV>>,
         chrome   |-> <<OGG, MP4, MP3, WAV, AAC>>,
         opera    |-> <<OGG>>,
         safari   |-> <<MP4, MP3, WAV, AAC>>,
         explorer |-> <<MP3>>,
         edge     |-> <<MP4, MP3, WAV, AAC>>]

getDefSoundParams == [autoplay |-> FALSE, loop |-> FALSE, muted |-> FALSE,
                      preload |-> TRUE, volume |-> 1]

\* ------------------------------------------------------------------ state
VARIABLES
    browser,           \* result of __getBrowserName() in the running host
    playable,          \* encodings the host's canPlayType accepts
    path,              \* this.__path
    inst,              \* this.__autoplay, __loop, __muted, __preload, __volume
    ready,             \* this.__ready
    preparing,         \* this.__preparing
    preparingPromise,  \* this.__preparingPromise (0 is null)
    sounds,            \* this.__sounds: the id of the array it refers to
    arrays,            \* heap of arrays of entries
    objs,              \* heap of sound objects (name, own options, audio)
    audios,            \* heap of HTMLAudioElement objects (media handles)
    promises,          \* heap of promises
    queue,             \* microtask queue (FIFO)
    calls,             \* history: the facade calls made so far
    acts,              \* history: playback actions done on media handles
    runs,              \* history: number of preparation runs started
    unit               \* an operation applied on its own: its input and result

config == <<browser, playable, path, inst>>
vars == <<browser, playable, path, inst, ready, preparing, preparingPromise,
          sounds, arrays, objs, audios, promises, queue, calls, acts, runs,
          unit>>

\* ----------------------------------------------------------------- values
Undef == [k |-> "undef", n |-> 0, s |-> "", l |-> <<>>]
Self == [k |-> "self", n |-> 0, s |-> "", l |-> <<>>]
SoundRef(i) == [k |-> "sound", n |-> i, s |-> "", l |-> <<>>]
AudioRef(i) == [k |-> "audio", n |-> i, s |-> "", l |-> <<>>]
ArrRef(i) == [k |-> "array", n |-> i, s |-> "", l |-> <<>>]
ExtList(l) == [k |-> "exts", n |-> 0, s |-> "", l |-> l]
ExtVal(e) == [k |-> "ext", n |-> 0, s |-> e, l |-> <<>>]
Err(m) == [k |-> "error", n |-> 0, s |-> m, l |-> <<>>]

\* no operation is applied on its own
NoUnit == [op |-> "", in |-> Undef, out |-> Undef]

Ctx(s, it, a, p, c) == [s |-> s, it |-> it, a |-> a, p |-> p, c |-> c]
NoCtx == Ctx("", Undef, 0, 0, 0)

\* The mutable heap, as one record the code's functions transform.
World == [ps |-> promises, q |-> queue, objs |-> objs, audios |-> audios,
          arrays |-> arrays, sounds |-> sounds, ready |-> ready,
          preparing |-> preparing, pp |-> preparingPromise, runs |-> runs,
          acts |-> acts, ret |-> 0, rets |-> <<>>]

Commit(W) ==
    /\ promises' = W.ps
    /\ queue' = W.q
    /\ objs' = W.objs
    /\ audios' = W.audios
    /\ arrays' = W.arrays
    /\ sounds' = W.sounds
    /\ ready' = W.ready
    /\ preparing' = W.preparing
    /\ preparingPromise' = W.pp
    /\ runs' = W.runs
    /\ acts' = W.acts
    /\ UNCHANGED <<config, unit>>

\* Bind(x, F) is F(x) with x evaluated once, before F: the sequencing of
\* two statements.
Bind(x, F(_)) == CHOOSE r \in {F(y) : y \in {x}} : TRUE

\* --------------------------------------------------------- promise engine
NewPromise(W) ==
    [W EXCEPT !.ps = Append(@, [st |-> "P", val |-> Undef, rs |-> <<>>, left |-> 0]),
              !.ret = Len(W.ps) + 1]

JobOf(r, st, v) ==
    [h |-> IF st = "F" THEN r.f ELSE r.r, ctx |-> r.ctx, d |-> r.d, st |-> st, v |-> v]

\* resolve (st = "F") or reject (st = "R") promise p; a settled promise
\* ignores it.  Its reactions become jobs, in registration order.
Settle(W, p, st, v) ==
    IF W.ps[p].st # "P" THEN W
    ELSE [W EXCEPT !.ps[p] = [@ EXCEPT !.st = st, !.val = v, !.rs = <<>>],
                   !.q = @ \o [i \in 1..Len(W.ps[p].rs) |-> JobOf(W.ps[p].rs[i], st, v)]]

\* p.then(f, r): "thru" stands for a missing callback.  ret is the
\* derived promise.
Then(W, p, f, r, ctx) ==
    LET W1 == NewPromise(W)
        rec == [f |-> f, r |-> r, ctx |-> ctx, d |-> W1.ret]
    IN IF W.ps[p].st = "P"
       THEN [W1 EXCEPT !.ps[p].rs = Append(@, rec)]
       ELSE [W1 EXCEPT !.q = Append(@, JobOf(rec, W.ps[p].st, W.ps[p].val))]

\* Promise.resolve(v) for a non-thenable v.
PromiseResolve(W, v) ==
    Bind(NewPromise(W), LAMBDA W1 : Settle(W1, W1.ret, "F", v))

RECURSIVE AllSubscribe(_, _, _, _)
AllSubscribe(W, plist, i, pall) ==
    IF i > Len(plist) THEN W
    ELSE Bind(Then(W, plist[i], "allElem", "allReject", Ctx("", Undef, 0, pall, 0)),
              LAMBDA W1 : AllSubscribe(W1, plist, i + 1, pall))

\* Promise.all(plist)
PromiseAll(W, plist) ==
    Bind(NewPromise(W), LAMBDA W1 :
        IF Len(plist) = 0
        THEN Settle(W1, W1.ret, "F", Undef)
        ELSE Bind(AllSubscribe([W1 EXCEPT !.ps[W1.ret].left = Len(plist)], plist, 1, W1.ret),
                  LAMBDA W2 : [W2 EXCEPT !.ret = W1.ret]))

\* ------------------------------------------------------ registry helpers
\* entry.name: an HTMLAudioElement has no name property ("" is undefined)
NameOf(W, it) == IF it.k = "sound" THEN W.objs[it.n].name ELSE ""

\* entry.audio (0 is undefined)
AudioOf(W, it) == IF it.k = "sound" THEN W.objs[it.n].audio ELSE W.audios[it.n].audio

\* __getSoundData falling back to the first entry instead of throwing
getSoundDataOrFirst(W, soundName) ==
    LET arr == W.arrays[W.sounds]
        hits == {i \in 1..Len(arr) : NameOf(W, arr[i]) = soundName}
    IN IF hits = {} THEN (IF Len(arr) = 0 THEN 0 ELSE 1)
       ELSE CHOOSE i \in hits : \A j \in hits : i <= j

\* index of the entry __getSoundData(soundName) returns, 0 when it throws
getSoundData(W, soundName) ==
    LET arr == W.arrays[W.sounds]
        hits == {i \in 1..Len(arr) : NameOf(W, arr[i]) = soundName}
    IN IF hits = {} THEN 0 ELSE CHOOSE i \in hits : \A j \in hits : i <= j

\* __getBrowserName(), nav telling which patterns window.navigator matches
getBrowserName(nav) ==
    IF nav.chrome /\ nav.google /\ ~nav.opera THEN "chrome"
    ELSE IF nav.firefox THEN "firefox"
    ELSE IF nav.opera THEN "opera"
    ELSE IF nav.msie THEN "explorer"
    ELSE IF nav.edge THEN "edge"
    ELSE IF nav.apple THEN "safari"
    ELSE ""

getBrowserExts == exts[IF browser # "" THEN browser ELSE "all"]

canPlayExt(ext) == ext \in playable

\* __getExtFromAvailableExts returning the last extension the browser
\* can play
getExtLastPlayable(l) ==
    LET ok == {i \in 1..Len(l) : canPlayExt(l[i])}
    IN IF ok = {} THEN 0 ELSE CHOOSE i \in ok : \A j \in ok : i >= j

\* index in exts of the extension __getExtFromAvailableExts returns,
\* 0 when it throws
getExtFromAvailableExts(l) ==
    LET ok == {i \in 1..Len(l) : canPlayExt(l[i])}
    IN IF ok = {} THEN 0 ELSE CHOOSE i \in ok : \A j \in ok : i <= j

validateExt(ext) == \E i \in 1..Len(exts.all) : exts.all[i] = ext

getSoundPath(name, ext) == path \o name \o "." \o ext

makeAudioElemSource(name, ext) == [src |-> getSoundPath(name, ext), type |-> "audio/" \o ext]

\* own options of an entry (an HTMLAudioElement has none of its own)
OwnAttrs(W, it) == IF it.k = "sound" THEN W.objs[it.n].attrs ELSE <<>>

getAudioAttrVal(W, attr, it) ==
    IF attr \in DOMAIN OwnAttrs(W, it) THEN OwnAttrs(W, it)[attr] ELSE inst[attr]

Truthy(attr, v) == IF attr = "volume" THEN v # 0 ELSE v = TRUE

\* the attributes __setAudioElemAttrs writes on the new element
setAudioElemAttrs(W, it) ==
    {a \in {attrs[i] : i \in 1..Len(attrs)} : Truthy(a, getAudioAttrVal(W, a, it))}

\* ------------------------------------------------- preparation pipeline
\* __getAvailableExts(name): settles at once, with the browser's list
getAvailableExts(W, name) ==
    Bind(NewPromise(W), LAMBDA W1 :
        IF name = ""
        THEN Settle(W1, W1.ret, "R", Err("Got incorrect sound name."))
        ELSE Settle(W1, W1.ret, "F", ExtList(getBrowserExts)))

\* __getAvailableExt(name)
getAvailableExt(W, name) ==
    Bind(getAvailableExts(W, name), LAMBDA W1 :
        Then(W1, W1.ret, "getAvailableExt", "thru", NoCtx))

\* __setAudioElemSource(sound): the promise it returns is settled only by
\* the callback of line 630; nothing handles a rejection of
\* __getAvailableExt.
setAudioElemSource(W, it) ==
    Bind(NewPromise(W), LAMBDA W1 :
    Bind(getAvailableExt(W1, NameOf(W1, it)), LAMBDA W2 :
    Bind(Then(W2, W2.ret, "setAudioElemSource", "thru", Ctx("", it, 0, W1.ret, 0)), LAMBDA W3 :
        [W3 EXCEPT !.ret = W1.ret])))

\* sound.audio = document.createElement("audio"); __setAudioElemAttrs(sound)
createAudio(W, it) ==
    LET h == Len(W.audios) + 1
        a == [paused |-> TRUE, pos |-> 0, attrs |-> setAudioElemAttrs(W, it),
              srcs |-> <<>>, autoplaying |-> TRUE, audio |-> 0, made |-> 0]
    IN IF it.k = "sound"
       THEN [W EXCEPT !.audios = Append(@, a),
                      !.objs[it.n].audio = h, !.objs[it.n].made = @ + 1]
       ELSE [W EXCEPT !.audios = Append([@ EXCEPT ![it.n].audio = h,
                                                  ![it.n].made = @ + 1], a)]

\* __makeAudioElem(sound)
makeAudioElem(W, it) ==
    Bind(NewPromise(W), LAMBDA W1 :
        IF AudioOf(W1, it) # 0
        THEN Settle(W1, W1.ret, "F", AudioRef(AudioOf(W1, it)))
        ELSE Bind(createAudio(W1, it), LAMBDA W2 :
             Bind(setAudioElemSource(W2, it), LAMBDA W3 :
             Bind(Then(W3, W3.ret, "makeAudioElemThen", "thru", Ctx("", it, 0, W1.ret, 0)), LAMBDA W4 :
             Bind(Then(W4, W4.ret, "thru", "makeAudioElemCatch", Ctx("", it, 0, W1.ret, 0)), LAMBDA W5 :
                 [W5 EXCEPT !.ret = W1.ret])))))

RECURSIVE makeEach(_, _, _, _, _)
makeEach(W, items, i, prepared, acc) ==
    IF i > Len(items) THEN [W EXCEPT !.rets = acc]
    ELSE Bind(makeAudioElem(W, items[i]), LAMBDA W1 :
         Bind(Then(W1, W1.ret, "pushPrepared", "thru", Ctx("", Undef, prepared, 0, 0)), LAMBDA W2 :
         Bind(Then(W2, W2.ret, "thru", "warnFailed", Ctx("", items[i], 0, 0, 0)), LAMBDA W3 :
             makeEach(W3, items, i + 1, prepared, Append(acc, W3.ret)))))

\* __makeAudioElemsFromData(sounds), sounds given by its elements
makeAudioElemsFromData(W, items) ==
    Bind(makeEach([W EXCEPT !.arrays = Append(@, <<>>)], items, 1, Len(W.arrays) + 1, <<>>), LAMBDA W1 :
    Bind(PromiseAll(W1, W1.rets), LAMBDA W2 :
        Then(W2, W2.ret, "returnPrepared", "thru", Ctx("", Undef, Len(W.arrays) + 1, 0, 0))))

\* __makeAudioElems()
makeAudioElems(W) ==
    Bind(makeAudioElemsFromData(W, W.arrays[W.sounds]), LAMBDA W1 :
        Then(W1, W1.ret, "assignSounds", "thru", NoCtx))

\* prepare() without the test of this.__preparing
prepareNotCoalesced(W) ==
    IF W.ready THEN PromiseResolve(W, Self)
    ELSE Bind(makeAudioElems([W EXCEPT !.preparing = TRUE, !.runs = @ + 1]), LAMBDA W1 :
         Bind(Then(W1, W1.ret, "prepareThen", "thru", NoCtx), LAMBDA W2 :
         Bind(Then(W2, W2.ret, "thru", "prepareCatch", NoCtx), LAMBDA W3 :
             [W3 EXCEPT !.pp = W3.ret])))

\* prepare() without the test of this.__ready
prepareAgainWhenReady(W) ==
    IF W.preparing THEN [W EXCEPT !.ret = W.pp]
    ELSE Bind(makeAudioElems([W EXCEPT !.preparing = TRUE, !.runs = @ + 1]), LAMBDA W1 :
         Bind(Then(W1, W1.ret, "prepareThen", "thru", NoCtx), LAMBDA W2 :
         Bind(Then(W2, W2.ret, "thru", "prepareCatch", NoCtx), LAMBDA W3 :
             [W3 EXCEPT !.pp = W3.ret])))

\* prepare() that does not store the promise in this.__preparingPromise
prepareForgetsPromise(W) ==
    IF W.ready THEN PromiseResolve(W, Self)
    ELSE IF W.preparing THEN [W EXCEPT !.ret = W.pp]
    ELSE Bind(makeAudioElems([W EXCEPT !.preparing = TRUE, !.runs = @ + 1]), LAMBDA W1 :
         Bind(Then(W1, W1.ret, "prepareThen", "thru", NoCtx), LAMBDA W2 :
             Then(W2, W2.ret, "thru", "prepareCatch", NoCtx)))

prepare(W) ==
    IF W.ready THEN PromiseResolve(W, Self)
    ELSE IF W.preparing THEN [W EXCEPT !.ret = W.pp]
    ELSE Bind(makeAudioElems([W EXCEPT !.preparing = TRUE, !.runs = @ + 1]), LAMBDA W1 :
         Bind(Then(W1, W1.ret, "prepareThen", "thru", NoCtx), LAMBDA W2 :
         Bind(Then(W2, W2.ret, "thru", "prepareCatch", NoCtx), LAMBDA W3 :
             [W3 EXCEPT !.pp = W3.ret])))

\* wait() that does not wait
waitNot(W) == PromiseResolve(W, Self)

wait(W) ==
    IF W.ready THEN PromiseResolve(W, Self)
    ELSE IF W.preparing THEN [W EXCEPT !.ret = W.pp]
    ELSE prepare(W)

\* --------------------------------------------------------------- facade
pause(W, soundName, c) ==
    Bind(wait(W), LAMBDA W1 :
    Bind(Then(W1, W1.ret, "pauseThen", "thru", Ctx(soundName, Undef, 0, 0, c)), LAMBDA W2 :
        Then(W2, W2.ret, "thru", "pauseCatch", Ctx(soundName, Undef, 0, 0, c))))

stop(W, soundName, c) ==
    Bind(pause(W, soundName, c), LAMBDA W1 :
        Then(W1, W1.ret, "stopThen", "thru", Ctx(soundName, Undef, 0, 0, c)))

RECURSIVE stopEach(_, _, _, _, _)
stopEach(W, items, i, acc, c) ==
    IF i > Len(items) THEN [W EXCEPT !.rets = acc]
    ELSE Bind(stop(W, NameOf(W, items[i]), c), LAMBDA W1 :
             stopEach(W1, items, i + 1, Append(acc, W1.ret), c))

stopAll(W, c) ==
    Bind(stopEach(W, W.arrays[W.sounds], 1, <<>>, c), LAMBDA W1 :
        PromiseAll(W1, W1.rets))

destruct(W, c) ==
    Bind(stopAll(W, c), LAMBDA W1 :
        Then(W1, W1.ret, "destructThen", "thru", Ctx("", Undef, 0, 0, c)))

play(W, soundName, c) ==
    Bind(wait(W), LAMBDA W1 :
    Bind(Then(W1, W1.ret, "playThen", "thru", Ctx(soundName, Undef, 0, 0, c)), LAMBDA W2 :
    Bind(Then(W2, W2.ret, "thru", "playCatch", Ctx(soundName, Undef, 0, 0, c)), LAMBDA W3 :
        [W3 EXCEPT !.ret = 0])))

addSounds(W, items, c) ==
    Bind(makeAudioElemsFromData(W, items), LAMBDA W1 :
        Then(W1, W1.ret, "addSoundsThen", "thru", Ctx("", Undef, 0, 0, c)))

\* __updateSounds putting the new elements in front
updateSoundsFront(W, arr) == [W EXCEPT !.arrays[W.sounds] = W.arrays[arr] \o @]

\* __updateSounds(sounds): push every element on this.__sounds
updateSounds(W, arr) == [W EXCEPT !.arrays[W.sounds] = @ \o W.arrays[arr]]

\* hasSound testing only that the registry is not empty
hasSoundNonEmpty(W, soundName) == Len(W.arrays[W.sounds]) > 0

\* hasSound(soundName): a throw of __getSoundData is caught
hasSound(W, soundName) == getSoundData(W, soundName) # 0

\* --------------------------------------------------------- construction
extend(def, sound) ==
    [a \in DOMAIN def \cup DOMAIN sound |-> IF a \in DOMAIN sound THEN sound[a] ELSE def[a]]

\* sound.name of a spec of the client ("" when it has none)
specName(spec) == IF "name" \in DOMAIN spec THEN spec.name ELSE ""

\* __prepareSounds that tests the name of the first spec only
prepareSoundsFirst(specs) ==
    IF Len(specs) > 0 /\ specName(specs[1]) = ""
    THEN [err |-> "Got incorrect sound name.", sounds |-> <<>>]
    ELSE [err |-> "",
          sounds |-> [i \in 1..Len(specs) |->
              [name |-> specName(specs[i]),
               attrs |-> extend(getDefSoundParams, specs[i].attrs),
               audio |-> 0, made |-> 0]]]

\* __prepareSounds(sounds): err is the message of the error it throws
\* ("" when it returns)
prepareSounds(specs) ==
    IF \E i \in 1..Len(specs) : specName(specs[i]) = ""
    THEN [err |-> "Got incorrect sound name.", sounds |-> <<>>]
    ELSE [err |-> "",
          sounds |-> [i \in 1..Len(specs) |->
              [name |-> specName(specs[i]),
               attrs |-> extend(getDefSoundParams, specs[i].attrs),
               audio |-> 0, made |-> 0]]]

\* option values of the client, with their JavaScript type
Bool(b) == [t |-> "boolean", v |-> b]
Num(n) == [t |-> "number", v |-> n]

\* typeof params[opt]
typeof(params, opt) == IF opt \in DOMAIN params THEN params[opt].t ELSE "undefined"

\* the instance-wide options the constructor stores
Sounder(params) ==
    [autoplay |-> IF typeof(params, "autoplay") = "string" THEN params.autoplay.v ELSE FALSE,
     loop |-> IF typeof(params, "loop") = "boolean" THEN params.loop.v ELSE FALSE,
     muted |-> IF typeof(params, "muted") = "boolean" THEN params.muted.v ELSE FALSE,
     preload |-> IF typeof(params, "preload") = "boolean" THEN params.preload.v ELSE TRUE,
     volume |-> IF typeof(params, "volume") = "number" THEN params.volume.v ELSE 1]

\* new Sounder(params): err is the message of the error the constructor
\* throws ("" when it returns the instance)
New(params) ==
    LET r == prepareSounds(IF "sounds" \in DOMAIN params THEN params.sounds ELSE <<>>)
    IN IF r.err # ""
       THEN [err |-> r.err, sounds |-> <<>>, path |-> "", inst |-> getDefSoundParams]
       ELSE [err |-> "", sounds |-> r.sounds,
             path |-> IF "path" \in DOMAIN params THEN params.path ELSE "",
             inst |-> Sounder(params)]

Spec0(name, own) == [name |-> name, attrs |-> own]
Auto == [autoplay |-> TRUE]
Plain == [loop |-> TRUE]

\* the constructor inputs the model explores
Params ==
    {[sounds |-> <<Spec0("a", Auto), Spec0("b", Plain)>>, path |-> "/s/",
      preload |-> Bool(TRUE), volume |-> Num(1)],
     [sounds |-> <<Spec0("a", Auto), Spec0("a", Auto)>>, path |-> "/s/"]}

Browsers == {"firefox", "opera"}
Playable == {{MP3}}

\* names the client passes to play, pause and stop
Names == {"a", "zz"}

\* lists the client passes to addSounds
Added == {<<Spec0("c", Auto)>>, <<[attrs |-> <<>>]>>}

Init ==
    /\ browser \in Browsers
    /\ playable \in Playable
    /\ \E params \in Params :
        /\ path = New(params).path
        /\ inst = New(params).inst
        /\ objs = New(params).sounds
        /\ arrays = << [i \in 1..Len(params.sounds) |-> SoundRef(i)] >>
    /\ sounds = 1
    /\ audios = <<>>
    /\ ready = FALSE
    /\ preparing = FALSE
    /\ preparingPromise = 0
    /\ promises = <<>>
    /\ queue = <<>>
    /\ calls = <<>>
    /\ acts = <<>>
    /\ runs = 0
    /\ unit = NoUnit

\* -------------------------------------------------- the client's calls
Record(op, soundName, W) ==
    calls' = Append(calls, [op |-> op, name |-> soundName, p |-> W.ret,
                            ready |-> ready, preparing |-> preparing,
                            pp |-> preparingPromise, items |-> arrays[sounds],
                            made |-> Len(W.audios) - Len(audios),
                            run |-> W.runs - runs, end |-> Len(W.ps),
                            own |-> {k \in 1..Len(arrays[sounds]) :
                                        AudioOf(World, arrays[sounds][k]) # 0}])

CanCall == Len(calls) < MaxCalls
Me == Len(calls) + 1

CallPrepare ==
    /\ CanCall
    /\ \E W \in {prepare(World)} : Record("prepare", "", W) /\ Commit(W)

CallWait ==
    /\ CanCall
    /\ \E W \in {wait(World)} : Record("wait", "", W) /\ Commit(W)

CallPlay ==
    /\ CanCall
    /\ \E n \in Names :
        \E W \in {play(World, n, Me)} : Record("play", n, W) /\ Commit(W)

CallPause ==
    /\ CanCall
    /\ \E n \in Names :
        \E W \in {pause(World, n, Me)} : Record("pause", n, W) /\ Commit(W)

CallStop ==
    /\ CanCall
    /\ \E n \in Names :
        \E W \in {stop(World, n, Me)} : Record("stop", n, W) /\ Commit(W)

CallStopAll ==
    /\ CanCall
    /\ \E W \in {stopAll(World, Me)} : Record("stopAll", "", W) /\ Commit(W)

CallDestruct ==
    /\ CanCall
    /\ \E W \in {destruct(World, Me)} : Record("destruct", "", W) /\ Commit(W)

\* hasSound returns at once, with val
CallHasSound ==
    /\ CanCall
    /\ \E n \in Names :
        calls' = Append(calls, [op |-> "hasSound", name |-> n, p |-> 0,
                                ready |-> ready, preparing |-> preparing,
                                pp |-> preparingPromise, items |-> arrays[sounds],
                                made |-> 0, run |-> 0, end |-> Len(promises),
                                own |-> {k \in 1..Len(arrays[sounds]) :
                                            AudioOf(World, arrays[sounds][k]) # 0},
                                val |-> hasSound(World, n)])
    /\ UNCHANGED <<config, ready, preparing, preparingPromise, sounds, arrays,
                   objs, audios, promises, queue, acts, runs, unit>>

\* the specs are fresh objects of the client
CallAddSounds ==
    /\ CanCall
    /\ \E specs \in Added :
        \E W0 \in {[World EXCEPT !.objs = @ \o [i \in 1..Len(specs) |->
                        [name |-> specName(specs[i]), attrs |-> specs[i].attrs,
                         audio |-> 0, made |-> 0]]]} :
        \E W \in {addSounds(W0, [i \in 1..Len(specs) |-> SoundRef(Len(objs) + i)], Me)} :
            Record("addSounds", specName(specs[1]), W) /\ Commit(W)

\* ------------------------------------------------------- the microtasks
Job == Head(queue)
Popped == [World EXCEPT !.q = Tail(queue)]
Runs(h) == queue # <<>> /\ Job.h = h
Step(X) == \E W \in {X} : Commit(W) /\ UNCHANGED calls
Did(W, kind, h) ==
    [W EXCEPT !.acts = Append(@, [c |-> Job.ctx.c, kind |-> kind, h |-> h, ready |-> W.ready])]

\* a promise settled the way the reaction has no callback for
PassThrough ==
    /\ Runs("thru")
    /\ Step(Settle(Popped, Job.d, Job.st, Job.v))

\* line 714: function (exts) { return this.__getExtFromAvailableExts(exts); }
GetAvailableExtThen ==
    /\ Runs("getAvailableExt")
    /\ LET i == getExtFromAvailableExts(Job.v.l)
       IN Step(IF i = 0
               THEN Settle(Popped, Job.d, "R", Err("Failed at looking for audio extension browser can play!"))
               ELSE Settle(Popped, Job.d, "F", ExtVal(Job.v.l[i])))

\* lines 630-634
SetAudioElemSourceThen ==
    /\ Runs("setAudioElemSource")
    /\ LET ext == Job.v.s
           it == Job.ctx.it
           h == AudioOf(World, it)
       IN Step(IF ext = ""
               THEN Bind(Settle(Popped, Job.ctx.p, "R", Err("No available extension")),
                         LAMBDA W : Settle(W, Job.d, "F", Undef))
               ELSE IF ~validateExt(ext)
               THEN Settle(Popped, Job.d, "R", Err("Got invalid audio extension."))
               ELSE Bind(Settle([Popped EXCEPT !.audios[h].srcs =
                                      Append(@, makeAudioElemSource(NameOf(World, it), ext))],
                                Job.ctx.p, "F", it),
                         LAMBDA W : Settle(W, Job.d, "F", Undef)))

\* lines 547-548: success(sound) / error(e)
MakeAudioElemSettle ==
    /\ queue # <<>>
    /\ Job.h \in {"makeAudioElemThen", "makeAudioElemCatch"}
    /\ Step(Bind(Settle(Popped, Job.ctx.p,
                        IF Job.h = "makeAudioElemThen" THEN "F" ELSE "R",
                        IF Job.h = "makeAudioElemThen" THEN Job.ctx.it ELSE Job.v),
                 LAMBDA W : Settle(W, Job.d, "F", Undef)))

\* lines 519-520: preparedSounds.push(sound) / console.warn
PreparedSoundSettle ==
    /\ queue # <<>>
    /\ Job.h \in {"pushPrepared", "warnFailed"}
    /\ Step(Bind(IF Job.h = "pushPrepared"
                 THEN [Popped EXCEPT !.arrays[Job.ctx.a] = Append(@, Job.v)]
                 ELSE Popped,
                 LAMBDA W : Settle(W, Job.d, "F", Undef)))

\* Promise.all's per-element reactions
PromiseAllElement ==
    /\ queue # <<>>
    /\ Job.h \in {"allElem", "allReject"}
    /\ LET pall == Job.ctx.p
       IN Step(Bind(IF Job.h = "allReject" THEN Settle(Popped, pall, "R", Job.v)
                    ELSE IF Popped.ps[pall].left = 1
                    THEN Settle([Popped EXCEPT !.ps[pall].left = 0], pall, "F", Undef)
                    ELSE [Popped EXCEPT !.ps[pall].left = @ - 1],
                    LAMBDA W : Settle(W, Job.d, "F", Undef)))

\* line 523: return preparedSounds
ReturnPrepared ==
    /\ Runs("returnPrepared")
    /\ Step(Settle(Popped, Job.d, "F", ArrRef(Job.ctx.a)))

\* line 502: return this.__sounds = sounds
AssignSounds ==
    /\ Runs("assignSounds")
    /\ Step(Bind([Popped EXCEPT !.sounds = Job.v.n], LAMBDA W : Settle(W, Job.d, "F", Job.v)))

\* the catch callback of prepare leaving this.__preparing set
PrepareSettleStillPreparing ==
    /\ queue # <<>>
    /\ Job.h \in {"prepareThen", "prepareCatch"}
    /\ Step(IF Job.h = "prepareThen"
            THEN Settle([Popped EXCEPT !.ready = TRUE, !.preparing = FALSE], Job.d, "F", Self)
            ELSE Settle([Popped EXCEPT !.ready = FALSE], Job.d, "F", Undef))

\* lines 359-368
PrepareSettle ==
    /\ queue # <<>>
    /\ Job.h \in {"prepareThen", "prepareCatch"}
    /\ Step(IF Job.h = "prepareThen"
            THEN Settle([Popped EXCEPT !.ready = TRUE, !.preparing = FALSE], Job.d, "F", Self)
            ELSE Settle([Popped EXCEPT !.ready = FALSE, !.preparing = FALSE], Job.d, "F", Undef))

\* an access to this.__getSoundData(soundName).audio: the handle, 0 when
\* the lookup throws or the entry has no audio
Handle(W, soundName) ==
    LET i == getSoundData(W, soundName)
    IN IF i = 0 THEN 0 ELSE AudioOf(W, W.arrays[W.sounds][i])

\* line 280
PlayThen ==
    /\ Runs("playThen")
    /\ LET h == Handle(World, Job.ctx.s)
       IN Step(IF h = 0 THEN Settle(Popped, Job.d, "R", Err("play"))
               ELSE Bind(Did([Popped EXCEPT !.audios[h].paused = FALSE,
                                            !.audios[h].autoplaying = FALSE], "play", h),
                         LAMBDA W : Settle(W, Job.d, "F", Undef)))

\* line 281
PlayCatch ==
    /\ Runs("playCatch")
    /\ Step(Settle(Popped, Job.d, "F", Undef))

\* line 291
PauseThen ==
    /\ Runs("pauseThen")
    /\ LET h == Handle(World, Job.ctx.s)
       IN Step(IF h = 0 THEN Settle(Popped, Job.d, "R", Err("pause"))
               ELSE Bind(Did([Popped EXCEPT !.audios[h].paused = TRUE,
                                            !.audios[h].autoplaying = FALSE], "pause", h),
                         LAMBDA W : Settle(W, Job.d, "F", Undef)))

\* line 292
PauseCatch ==
    /\ Runs("pauseCatch")
    /\ Step(Settle(Popped, Job.d, "F", Undef))

\* line 301
StopThen ==
    /\ Runs("stopThen")
    /\ LET h == Handle(World, Job.ctx.s)
       IN Step(IF h = 0 THEN Settle(Popped, Job.d, "R", Err("stop"))
               ELSE Bind(Did([Popped EXCEPT !.audios[h].pos = 0], "reset", h),
                         LAMBDA W : Settle(W, Job.d, "F", Undef)))

\* line 271: this.__sounds = []
DestructThen ==
    /\ Runs("destructThen")
    /\ Step(Bind([Popped EXCEPT !.arrays = Append(@, <<>>), !.sounds = Len(Popped.arrays) + 1],
                 LAMBDA W : Settle(W, Job.d, "F", Undef)))

\* lines 333-336
AddSoundsThen ==
    /\ Runs("addSoundsThen")
    /\ Step(Bind(updateSounds(Popped, Job.v.n), LAMBDA W : Settle(W, Job.d, "F", Self)))

\* ------------------------------------------------------------ the host
\* Host tasks run between tasks of the page, when no microtask is left.
\* An element with the autoplay attribute and a source starts by itself.
HostAutoplay ==
    /\ queue = <<>>
    /\ \E h \in 1..Len(audios) :
        /\ "autoplay" \in audios[h].attrs
        /\ audios[h].autoplaying
        /\ audios[h].paused
        /\ audios[h].srcs # <<>>
        /\ audios' = [audios EXCEPT ![h].paused = FALSE, ![h].autoplaying = FALSE]
    /\ UNCHANGED <<config, ready, preparing, preparingPromise, sounds, arrays,
                   objs, promises, queue, calls, acts, runs, unit>>

\* playback advances the position of a playing element
HostAdvance ==
    /\ queue = <<>>
    /\ \E h \in 1..Len(audios) :
        /\ ~audios[h].paused
        /\ audios[h].pos < MaxPos
        /\ audios' = [audios EXCEPT ![h].pos = @ + 1]
    /\ UNCHANGED <<config, ready, preparing, preparingPromise, sounds, arrays,
                   objs, promises, queue, calls, acts, runs, unit>>

Next ==
    \/ CallPrepare
    \/ CallWait
    \/ CallPlay
    \/ CallPause
    \/ CallStop
    \/ CallStopAll
    \/ CallDestruct
    \/ CallAddSounds
    \/ CallHasSound
    \/ PassThrough
    \/ GetAvailableExtThen
    \/ SetAudioElemSourceThen
    \/ MakeAudioElemSettle
    \/ PreparedSoundSettle
    \/ PromiseAllElement
    \/ ReturnPrepared
    \/ AssignSounds
    \/ PrepareSettle
    \/ PlayThen
    \/ PlayCatch
    \/ PauseThen
    \/ PauseCatch
    \/ StopThen
    \/ DestructThen
    \/ AddSoundsThen
    \/ HostAutoplay
    \/ HostAdvance

Spec == Init /\ [][Next]_vars

\* -------------------------------------- a failure of the aggregate step
\* The callback of __makeAudioElems (line 502) throws unexpectedly: the
\* promise of the aggregate step is rejected, which is what the catch
\* callback of prepare (lines 364-368) is written for.  No input makes the
\* code as it stands throw there; the failure is a fault of the host.
AggregateFails ==
    /\ Runs("assignSounds")
    /\ Step(Settle(Popped, Job.d, "R", Err("Failed at making <audio> elements.")))

NextFail ==
    \/ Next
    \/ AggregateFails

SpecFail == Init /\ [][NextFail]_vars

\* ------------------------------------------------ the constructor alone
\* the variables of the instance before any instance exists
NoInstance ==
    /\ path = ""
    /\ inst = getDefSoundParams
    /\ objs = <<>>
    /\ arrays = << <<>> >>
    /\ sounds = 1
    /\ audios = <<>>
    /\ ready = FALSE
    /\ preparing = FALSE
    /\ preparingPromise = 0
    /\ promises = <<>>
    /\ queue = <<>>
    /\ calls = <<>>
    /\ acts = <<>>
    /\ runs = 0

\* an option the client gives with one of vals, or leaves out
Opt(name, vals) == {<<>>} \cup {name :> v : v \in vals}

\* own options of the specs the client gives
Own == {<<>>, [loop |-> FALSE, volume |-> 0],
        [autoplay |-> TRUE, muted |-> TRUE, preload |-> FALSE]}

\* specs of the client: named, without a name, with an empty name
SoundSpecs == {Spec0("a", o) : o \in Own} \cup {[attrs |-> <<>>], Spec0("", <<>>)}

SpecLists ==
    {<<>>} \cup {<<x>> : x \in SoundSpecs} \cup {<<x, y>> : x, y \in SoundSpecs}
        \cup {<<x, y, z>> : x, y, z \in {Spec0("a", <<>>), [attrs |-> <<>>], Spec0("", <<>>)}}

\* the params objects the client constructs instances from
NewParams ==
    {[sounds |-> l, path |-> "/s/"] @@ a @@ b @@ c @@ d @@ e :
        l \in SpecLists,
        a \in Opt("autoplay", {Bool(TRUE), Bool(FALSE)}),
        b \in Opt("loop", {Bool(TRUE), Bool(FALSE)}),
        c \in Opt("muted", {Bool(TRUE)}),
        d \in Opt("preload", {Bool(FALSE)}),
        e \in Opt("volume", {Num(0), Num(2)})}

InitNew ==
    /\ browser = "firefox"
    /\ playable = {MP3}
    /\ NoInstance
    /\ unit \in {[op |-> "", in |-> [via |-> v, params |-> q], out |-> Undef] :
                    v \in {"new", "init"}, q \in NewParams}

\* new Sounder(params), also as the first statement of Sounder.init
NewSounder ==
    /\ unit.op = ""
    /\ LET r == New(unit.in.params)
       IN IF r.err # ""
          THEN /\ unit' = [unit EXCEPT !.op = "new", !.out = Err(r.err)]
               /\ UNCHANGED <<path, inst, objs, arrays>>
          ELSE /\ unit' = [unit EXCEPT !.op = "new", !.out = Self]
               /\ path' = r.path
               /\ inst' = r.inst
               /\ objs' = r.sounds
               /\ arrays' = << [i \in 1..Len(r.sounds) |-> SoundRef(i)] >>
    /\ UNCHANGED <<browser, playable, sounds, audios, ready, preparing, preparingPromise,
                   promises, queue, calls, acts, runs>>

\* line 261 of Sounder.init: sounder.prepare().catch(...)
InitPrepare ==
    /\ unit.op = "new"
    /\ unit.in.via = "init"
    /\ unit.out = Self
    /\ runs = 0
    /\ Step(Bind(prepare(World), LAMBDA W : Then(W, W.ret, "thru", "initCatch", NoCtx)))

NextNew ==
    \/ NewSounder
    \/ InitPrepare

SpecNew == InitNew /\ [][NextNew]_vars

\* ------------------------------------------ the encoding selection alone
ExtLists == UNION {[1..n -> {exts.all[i] : i \in 1..Len(exts.all)}] : n \in 0..MaxExts}

InitExt ==
    /\ browser = ""
    /\ playable \in SUBSET {exts.all[i] : i \in 1..Len(exts.all)}
    /\ NoInstance
    /\ unit \in {[op |-> "", in |-> l, out |-> Undef] : l \in ExtLists}

\* __getExtFromAvailableExts(exts) for an array exts
GetExtFromAvailableExts ==
    /\ unit.op = ""
    /\ LET i == getExtFromAvailableExts(unit.in)
       IN unit' = [unit EXCEPT
                     !.op = "getExtFromAvailableExts",
                     !.out = IF Len(unit.in) = 0
                             THEN Err("There are no available extensions.")
                             ELSE IF i = 0
                             THEN Err("Failed at looking for audio extension browser can play!")
                             ELSE ExtVal(unit.in[i])]
    /\ UNCHANGED <<config, ready, preparing, preparingPromise, sounds, arrays,
                   objs, audios, promises, queue, calls, acts, runs>>

SpecExt == InitExt /\ [][GetExtFromAvailableExts]_vars

\* ------------------------------------------ the browser classifier alone
\* which of the classifier's patterns the user agent (chrome, opera,
\* firefox, msie, edge) and the vendor (google, apple) match
Navigators ==
    [chrome : BOOLEAN, google : BOOLEAN, opera : BOOLEAN, firefox : BOOLEAN,
     msie : BOOLEAN, edge : BOOLEAN, apple : BOOLEAN]

InitBrowser ==
    /\ browser = ""
    /\ playable = {}
    /\ NoInstance
    /\ unit \in {[op |-> "", in |-> nav, out |-> ""] : nav \in Navigators}

\* __getBrowserName() in a host whose navigator is unit.in
GetBrowserName ==
    /\ unit.op = ""
    /\ unit' = [unit EXCEPT !.op = "getBrowserName", !.out = getBrowserName(unit.in)]
    /\ browser' = getBrowserName(unit.in)
    /\ UNCHANGED <<playable, path, inst, ready, preparing, preparingPromise, sounds,
                   arrays, objs, audios, promises, queue, calls, acts, runs>>

SpecBrowser == InitBrowser /\ [][GetBrowserName]_vars

TypeOK ==
    /\ ready \in BOOLEAN
    /\ preparing \in BOOLEAN
    /\ preparingPromise \in 0..Len(promises)
    /\ sounds \in 1..Len(arrays)

\* =============================================================== claims
Calls == 1..Len(calls)
Registry == arrays[sounds]
Registered(n) == \E k \in 1..Len(Registry) : NameOf(World, Registry[k]) = n
Settled(p) == p # 0 /\ promises[p].st # "P"
Fulfilled(p) == p # 0 /\ promises[p].st = "F"
Rejected(p) == p # 0 /\ promises[p].st = "R"
IsPrepareCall(i) == calls[i].op \in {"prepare", "wait"}
Called == Len(calls') = Len(calls) + 1
Last == calls'[Len(calls')]

\* C1: prepare() and wait() calls made while the instance is not ready
\* start exactly one preparation run: no entry gets a media handle created
\* twice, every such call made while the run is in flight receives the
\* in-flight promise (the one the starting call received), and when that
\* promise is settled it is fulfilled with the instance, which is ready.
C1_OnePreparationRun ==
    /\ runs <= 1
    /\ (\E i \in Calls : IsPrepareCall(i)) => runs = 1
    /\ \A o \in 1..Len(objs) : objs[o].made <= 1
    /\ \A h \in 1..Len(audios) : audios[h].made <= 1
    /\ \A i \in Calls :
        IsPrepareCall(i) /\ ~calls[i].ready =>
            /\ calls[i].p # 0
            /\ calls[i].preparing => calls[i].p = calls[i].pp /\ calls[i].run = 0
            /\ \A j \in Calls : IsPrepareCall(j) /\ ~calls[j].ready => calls[j].p = calls[i].p
            /\ Settled(calls[i].p) =>
                ready /\ promises[calls[i].p].st = "F" /\ promises[calls[i].p].val = Self

C1_Witness ==
    /\ Len(calls) = 2
    /\ IsPrepareCall(1) /\ IsPrepareCall(2)
    /\ calls[1].run = 1
    /\ calls[2].preparing
    /\ Fulfilled(calls[2].p)

\* C2: a ready instance stays ready, and a prepare() or wait() call made
\* while it is ready starts no run, creates no media handle, leaves the
\* registry as it is and returns a promise fulfilled with the instance.
C2_ReadyIsStable ==
    [][/\ ready => ready'
       /\ (ready /\ Called /\ Last.op \in {"prepare", "wait"}) =>
            /\ runs' = runs
            /\ ~preparing'
            /\ audios' = audios
            /\ objs' = objs
            /\ sounds' = sounds
            /\ arrays' = arrays
            /\ promises'[Last.p].st = "F"
            /\ promises'[Last.p].val = Self]_vars

C2_Witness ==
    /\ ready
    /\ \E i \in Calls : IsPrepareCall(i) /\ calls[i].ready /\ Fulfilled(calls[i].p)
    /\ \E i \in Calls : ~IsPrepareCall(i)

\* the browser's preference list holds no encoding the host can play
NoPlayableFormat == getExtFromAvailableExts(getBrowserExts) = 0

\* C3: with a sound that has no playable encoding the preparation still
\* completes: when no continuation is left to run, a run that was started
\* has made the instance ready, and the registry holds exactly the sounds
\* that got a source.
C3_PrepareCompletes ==
    (NoPlayableFormat /\ runs > 0 /\ queue = <<>>) =>
        /\ ready
        /\ \A k \in 1..Len(Registry) :
            AudioOf(World, Registry[k]) # 0 /\ audios[AudioOf(World, Registry[k])].srcs # <<>>

\* C4: every playback action (play, pause, reset of the position) is done
\* on a ready instance, and a playback call made when no preparation was
\* ever started starts one.
C4_PlaybackOnlyWhenReady ==
    /\ \A a \in 1..Len(acts) : acts[a].ready
    /\ \A i \in Calls :
        (/\ calls[i].op \in {"play", "pause", "stop", "stopAll", "destruct"}
         /\ ~calls[i].ready /\ ~calls[i].preparing /\ calls[i].items # <<>>)
            => calls[i].run = 1

C4_Witness ==
    \E a \in 1..Len(acts) :
        /\ ~calls[acts[a].c].ready
        /\ ~calls[acts[a].c].preparing
        /\ calls[acts[a].c].run = 1

\* C5: once an addSounds call and the preparation have both completed,
\* every added sound whose media element was created is in the registry,
\* with the original sounds.
C5_AddedSoundsKept ==
    \A i \in Calls :
        (/\ calls[i].op = "addSounds"
         /\ Fulfilled(calls[i].p)
         /\ ready
         /\ \A j \in Calls : calls[j].op \in {"addSounds", "prepare", "wait"})
            => /\ Registered(calls[i].name)
               /\ \A k \in 1..Len(calls[i].items) : Registered(NameOf(World, calls[i].items[k]))

\* the media handle of the k-th entry that was registered when call i was
\* made (0 when it has none)
HandleAt(i, k) == AudioOf(World, calls[i].items[k])
Resolves(i) == promises[calls[i].p].st = "P" /\ promises'[calls[i].p].st = "F"
NoCallOf(ops) == \A j \in Calls : calls[j].op \notin ops
Stopped(h) == h # 0 /\ audios'[h].paused /\ audios'[h].pos = 0

\* C6: when the promise of destruct() resolves (and no play or addSounds
\* call interferes), every sound that was registered when destruct was
\* called is paused at position zero, the registry is empty and no
\* previously registered name is found.
C6_DestructStopsAll ==
    [][\A i \in Calls :
        (calls[i].op = "destruct" /\ Resolves(i) /\ NoCallOf({"play", "addSounds"})) =>
            /\ arrays'[sounds'] = <<>>
            /\ \A k \in 1..Len(calls[i].items) : Stopped(HandleAt(i, k))]_vars

\* the position in acts of the action `kind` that call i did on handle h
\* (0 when there is none)
ActOf(i, kind, h) ==
    LET hits == {a \in 1..Len(acts) : acts[a].c = i /\ acts[a].kind = kind /\ acts[a].h = h}
    IN IF hits = {} THEN 0 ELSE CHOOSE a \in hits : \A b \in hits : a <= b

\* the handle of the entry that name n denoted when call i was made
NamedAt(i, n) ==
    LET hits == {k \in 1..Len(calls[i].items) : NameOf(World, calls[i].items[k]) = n}
    IN IF hits = {} THEN 0 ELSE HandleAt(i, CHOOSE k \in hits : \A j \in hits : k <= j)

\* C7: when the promise of stop(name) resolves, for a name that was
\* registered at the call and with no play(name) call made after it, the
\* call has paused the sound's media handle, has reset its position after
\* the pause, and the handle is paused at position zero.
C7_StopPausesThenResets ==
    [][\A i \in Calls :
        (/\ calls[i].op = "stop"
         /\ NamedAt(i, calls[i].name) # 0
         /\ Resolves(i)
         /\ \A j \in Calls : j > i => ~(calls[j].op = "play" /\ calls[j].name = calls[i].name))
            => LET h == NamedAt(i, calls[i].name)
               IN /\ 0 < ActOf(i, "pause", h)'
                  /\ ActOf(i, "pause", h)' < ActOf(i, "reset", h)'
                  /\ Stopped(h)]_vars

\* C8: when the promise of stopAll() resolves (and no play call
\* interferes), every entry of the registry is paused at position zero.
C8_StopAllStopsEveryEntry ==
    [][\A i \in Calls :
        (calls[i].op = "stopAll" /\ Resolves(i) /\ NoCallOf({"play", "addSounds", "destruct"})) =>
            \A k \in 1..Len(arrays'[sounds']) :
                Stopped(AudioOf(World, arrays'[sounds'][k]))]_vars

\* C9: the promises pause(name) and stop(name) return never reject.
C9_PauseAndStopNeverReject ==
    \A i \in Calls : calls[i].op \in {"pause", "stop"} => ~Rejected(calls[i].p)

\* C10: play(name) with a name that matches no entry changes neither the
\* registry nor any media handle, in the call (which at most starts the
\* preparation) and in its continuations, and its failure is caught.
C10_PlayMissingChangesNothing ==
    [][/\ (queue # <<>> /\ calls' = calls /\ Job.h \in {"playThen", "playCatch"}
            /\ ~Registered(Job.ctx.s)) =>
            /\ audios' = audios
            /\ objs' = objs
            /\ arrays' = arrays
            /\ sounds' = sounds
            /\ ready' = ready /\ preparing' = preparing
            /\ Job.h = "playCatch" => promises'[Job.d].st = "F"
       /\ (Called /\ Last.op = "play" /\ ~Registered(Last.name)) =>
            /\ arrays'[sounds'] = arrays[sounds]
            /\ \A h \in 1..Len(audios) : audios'[h] = audios[h]
            /\ (ready \/ preparing) => audios' = audios /\ objs' = objs /\ runs' = runs]_vars

C10_Witness ==
    \E i \in Calls :
        /\ calls[i].op = "play"
        /\ ~Registered(calls[i].name)
        /\ Fulfilled(calls[i].end)
        /\ \E h \in 1..Len(audios) : ~audios[h].paused

\* over the step every entry of items keeps its options and its media
\* handle, and the handle keeps its attributes and its single source
Kept(items) ==
    \A k \in 1..Len(items) :
        LET it == items[k]
            h == AudioOf(World, it)
        IN /\ it.k = "sound" => objs'[it.n] = objs[it.n]
           /\ h # 0 => /\ audios'[h].srcs = audios[h].srcs
                       /\ audios'[h].attrs = audios[h].attrs
                       /\ audios'[h].made = audios[h].made
                       /\ Len(audios[h].srcs) = 1

\* call i is addSounds, made on a ready instance with a name that was new
\* and for which the browser has a playable encoding
AddsNew(i) ==
    /\ calls[i].op = "addSounds"
    /\ calls[i].ready
    /\ calls[i].name # ""
    /\ NamedAt(i, calls[i].name) = 0
    /\ ~NoPlayableFormat

\* C11: addSounds(specs) on a ready instance, with a new and playable
\* name, creates one media handle in the call and, when its promise
\* resolves, has appended exactly one entry (the spec, with a handle that
\* has one source) at the end of the registry; from the call to the
\* resolution every entry registered before keeps its position, its
\* options and its handle with its single source (no destruct call
\* interfering); the promise is fulfilled with the instance.
C11_AddSoundsAppends ==
    [][/\ (Called /\ Last.op = "addSounds" /\ ready /\ ~Registered(Last.name)
            /\ Last.name # "" /\ ~NoPlayableFormat) =>
            /\ Last.made = 1
            /\ arrays'[sounds'] = arrays[sounds]
            /\ Kept(arrays[sounds])
       /\ \A i \in Calls :
            (AddsNew(i) /\ promises[calls[i].p].st = "P" /\ NoCallOf({"destruct"})) =>
                /\ Kept(calls[i].items)
                /\ promises'[calls[i].p].st # "R"
                /\ \A k \in 1..Len(calls[i].items) : arrays'[sounds'][k] = calls[i].items[k]
                /\ Resolves(i) =>
                    LET new == arrays'[sounds'] IN
                    /\ promises'[calls[i].p].val = Self
                    /\ Len(new) = Len(arrays[sounds]) + 1
                    /\ \A k \in 1..Len(arrays[sounds]) : new[k] = arrays[sounds][k]
                    /\ new[Len(new)].k = "sound"
                    /\ NameOf(World, new[Len(new)]) = calls[i].name
                    /\ AudioOf(World, new[Len(new)]) # 0
                    /\ Len(audios[AudioOf(World, new[Len(new)])].srcs) = 1]_vars

C11_Witness ==
    \E i \in Calls :
        /\ AddsNew(i)
        /\ Fulfilled(calls[i].p)
        /\ Len(calls[i].items) = 2
        /\ Len(Registry) = 3
        /\ \A k \in 1..Len(Registry) : AudioOf(World, Registry[k]) # 0

\* the specs the client gave to the constructor
Given == IF "sounds" \in DOMAIN unit.in.params THEN unit.in.params.sounds ELSE <<>>

\* C12: constructing an instance (new Sounder or Sounder.init) from a list
\* in which some spec, at any position, has no name or an empty name
\* fails with the invalid-name error: no instance state is produced and
\* no preparation is started.
C12_InvalidNameFailsConstruction ==
    (\E k \in 1..Len(Given) : specName(Given[k]) = "") =>
        /\ NoInstance
        /\ unit.op = "new" => unit.out = Err("Got incorrect sound name.")

C12_Witness ==
    /\ unit.op = "new"
    /\ unit.in.via = "init"
    /\ unit.out.k = "error"
    /\ Len(Given) = 3
    /\ specName(Given[1]) # "" /\ specName(Given[2]) # ""
    /\ "name" \notin DOMAIN Given[3]

\* the value the client configured for option a of the instance, the
\* documented default when the client left it out
Configured(a) ==
    IF a \in DOMAIN unit.in.params THEN unit.in.params[a].v ELSE getDefSoundParams[a]

\* C14: for every sound given at construction and each of the five
\* attributes, the value resolved for the sound's media handle is the
\* value its spec sets, and the instance-level value when the spec leaves
\* the attribute unset.
C14_AttrFromSpecElseInstance ==
    (unit.op = "new" /\ unit.out = Self) =>
        \A k \in 1..Len(Given) : \A i \in 1..Len(attrs) :
            getAudioAttrVal(World, attrs[i], SoundRef(k)) =
                IF attrs[i] \in DOMAIN Given[k].attrs THEN Given[k].attrs[attrs[i]]
                ELSE inst[attrs[i]]

\* C18: every instance-wide option given with its documented type is
\* stored as the instance default, and an option left out takes the
\* documented default.
C18_OptionsStored ==
    (unit.op = "new" /\ unit.out = Self) =>
        \A i \in 1..Len(attrs) : inst[attrs[i]] = Configured(attrs[i])

\* C13: addSounds(specs) with a spec that has no name fails with the
\* invalid-name error: the promise it returned is never fulfilled, it is
\* rejected with that error once no continuation is left to run, and the
\* registry gets no entry without a name.
C13_AddSoundsValidates ==
    \A i \in Calls :
        (calls[i].op = "addSounds" /\ calls[i].name = "") =>
            /\ ~Fulfilled(calls[i].p)
            /\ \A k \in 1..Len(Registry) :
                Registry[k].k = "sound" => NameOf(World, Registry[k]) # ""
            /\ queue = <<>> =>
                /\ Rejected(calls[i].p)
                /\ promises[calls[i].p].val = Err("Got incorrect sound name.")

\* C15: for every list of encodings and every set of playable encodings
\* the selection returns the earliest element of the list that is
\* playable, and fails exactly when the list is empty or holds no
\* playable element.
C15_FirstPlayableEncoding ==
    unit.op = "getExtFromAvailableExts" =>
        LET l == unit.in IN
        IF \A j \in 1..Len(l) : l[j] \notin playable
        THEN unit.out.k = "error"
        ELSE /\ unit.out.k = "ext"
             /\ \E j \in 1..Len(l) :
                    /\ l[j] = unit.out.s
                    /\ l[j] \in playable
                    /\ \A m \in 1..(j - 1) : l[m] \notin playable

C15_Witness ==
    /\ unit.op = "getExtFromAvailableExts"
    /\ Len(unit.in) = 3
    /\ unit.in[1] \notin playable
    /\ unit.in[2] \in playable
    /\ unit.in[3] \in playable
    /\ unit.in[3] # unit.in[2]
    /\ unit.out = ExtVal(unit.in[2])

\* C16: hasSound(name) returns a boolean, true exactly when some entry of
\* the registry has that name, and the call changes nothing: registry,
\* flags, media handles, promises and pending continuations are the same
\* and no preparation run is started.
C16_HasSoundIsPureProbe ==
    [][(Called /\ Last.op = "hasSound") =>
        /\ Last.val \in BOOLEAN
        /\ Last.val <=> (\E k \in 1..Len(Registry) :
                            Registry[k].k = "sound" /\ objs[Registry[k].n].name = Last.name)
        /\ UNCHANGED <<ready, preparing, preparingPromise, sounds, arrays, objs,
                       audios, promises, queue, acts, runs>>]_vars

C16_Witness ==
    \E i \in Calls : \E j \in Calls :
        /\ calls[j].op = "destruct"
        /\ Fulfilled(calls[j].p)
        /\ calls[i].op = "hasSound"
        /\ calls[i].name = "a"
        /\ ~calls[i].val
        /\ calls[i].ready

\* the first encoding of the browser's preference list the host can play
\* ("" when there is none)
FirstPlayable ==
    LET l == exts[IF browser = "" THEN "all" ELSE browser]
        ok == {j \in 1..Len(l) : l[j] \in playable}
    IN IF ok = {} THEN "" ELSE l[CHOOSE j \in ok : \A m \in ok : j <= m]

\* C17: while the instance is ready every registry entry owns a media
\* handle with exactly one source, whose path is path + name + "." + e and
\* whose type is "audio/" + e, e being the first playable encoding of the
\* browser's preference list.
C17_OneSourcePerEntry ==
    ready =>
        \A k \in 1..Len(Registry) :
            /\ Registry[k].k = "sound"
            /\ objs[Registry[k].n].audio # 0
            /\ audios[objs[Registry[k].n].audio].srcs =
                    << [src |-> path \o objs[Registry[k].n].name \o "." \o FirstPlayable,
                        type |-> "audio/" \o FirstPlayable] >>

\* C19: a preparation run keeps every entry that owned a media handle
\* when the run was started: once the instance is ready (no destruct call
\* interfering) the entry has had no second handle created, is itself in
\* the registry and is found by its name.
C19_OwnedHandleEntryKept ==
    \A i \in Calls :
        (calls[i].op # "hasSound" /\ calls[i].run = 1 /\ ready /\ NoCallOf({"destruct"})) =>
            \A k \in calls[i].own :
                LET it == calls[i].items[k] IN
                it.k = "sound" =>
                    /\ objs[it.n].made = 1
                    /\ \E m \in 1..Len(Registry) : Registry[m] = it
                    /\ hasSound(World, objs[it.n].name)

\* C20: the classifier returns one of chrome, firefox, opera, safari,
\* explorer, edge or the empty string; chrome only when the user agent
\* has the Chrome token, the vendor the Google token and the user agent
\* does not match the Opera pattern; and opera whenever the user agent
\* matches the Opera pattern, whatever else matches.
C20_BrowserClassifier ==
    unit.op = "getBrowserName" =>
        /\ unit.out \in {"chrome", "firefox", "opera", "safari", "explorer", "edge", ""}
        /\ unit.out = "chrome" => unit.in.chrome /\ unit.in.google /\ ~unit.in.opera
        /\ unit.in.opera => unit.out = "opera"

\* C21: when the aggregate preparation step fails, the catch callback of
\* prepare puts the instance back to not ready and not preparing and
\* fulfils the promise handed to the callers (no promise of prepare() or
\* wait() is ever rejected), and a later prepare() call made in that state
\* starts a new run with a new promise.
C21_FailedRunCanBeRetried ==
    [][/\ (queue # <<>> /\ calls' = calls /\ Job.h = "prepareCatch") =>
            /\ ~ready' /\ ~preparing'
            /\ promises'[Job.d].st = "F"
       /\ \A i \in Calls : IsPrepareCall(i) => promises'[calls[i].p].st # "R"
       /\ (Called /\ Last.op = "prepare" /\ runs > 0 /\ ~ready /\ ~preparing) =>
            /\ Last.run = 1
            /\ preparing'
            /\ Last.p > Len(promises)
            /\ preparingPromise' = Last.p]_vars

C21_Witness ==
    /\ runs = 2
    /\ Len(calls) = 2
    /\ calls[1].op = "prepare" /\ calls[2].op = "prepare"
    /\ Fulfilled(calls[1].p)
    /\ promises[calls[1].p].val = Undef
    /\ calls[2].run = 1
    /\ ~calls[2].ready /\ ~calls[2].preparing

\* C22: when the browser's list has a playable encoding, nothing is left
\* pending: once no continuation is left to run, a preparation run that
\* was started has made the instance ready, and the promise of every
\* prepare, wait, pause, stop, stopAll, addSounds and destruct call is
\* resolved.
C22_EveryCallCompletes ==
    (~NoPlayableFormat /\ queue = <<>>) =>
        /\ runs > 0 => ready
        /\ \A i \in Calls :
            calls[i].op \in {"prepare", "wait", "pause", "stop", "stopAll",
                             "addSounds", "destruct"} => Fulfilled(calls[i].p)

\* C23: the preparation flags are consistent: ready and preparing are
\* never both true, while preparing the in-flight promise is set, and a
\* wait() call made while preparing returns that promise.
C23_FlagsConsistent ==
    /\ ~(ready /\ preparing)
    /\ preparing => preparingPromise \in 1..Len(promises)
    /\ \A i \in Calls :
        (calls[i].op = "wait" /\ calls[i].preparing) =>
            /\ calls[i].p # 0
            /\ calls[i].p = calls[i].pp
            /\ ~calls[i].ready

C23_Witness ==
    /\ preparing
    /\ \E i \in Calls : calls[i].op = "wait" /\ calls[i].preparing /\ calls[i].p = preparingPromise
====
